---- MODULE Spec2Model ----
(***************************************************************************)
(* Model of internal/utils/corrupt.go: CorruptText(input, severity).        *)
(*                                                                         *)
(* A Go string is a sequence of bytes (0..255); a rune is a code point.    *)
(* The conversions []rune(word), string(runes), strings.Fields and         *)
(* strings.Join are modelled on bytes, with Go's UTF-8 rules, so that an   *)
(* invalid byte decodes to U+FFFD and a glyph of three bytes may replace a *)
(* character of one.                                                       *)
(*                                                                         *)
(* rand.Float64() yields f / FloatDen for f in 0..FloatDen-1, a grid of    *)
(* [0,1); probabilities are exact fractions, compared by cross             *)
(* multiplication.  rand.Intn(n) yields an index in 0..n-1.  Every call of *)
(* the generator is one atomic step of the calling goroutine.              *)
(*                                                                         *)
(* Go indexes from 0, TLA+ sequences from 1: i and j below are the Go      *)
(* loop indexes plus one, and an Intn draw k selects table element k + 1.  *)
(***************************************************************************)
EXTENDS Integers, Sequences, FiniteSets, TLC

VARIABLES call, frame, glitchChars, glitchWords

vars == <<call, frame, glitchChars, glitchWords>>

----------------------------------------------------------------------------
(* Bounds of the model.                                                    *)

\* Longest input, in bytes.
MaxLen == 3

\* Longest input of the concurrent specification, in bytes.
ConcLen == 2

\* Number of grid points of rand.Float64().
FloatDen == 5

\* rand.Intn(n) yields the indexes below MaxPick and the last index n - 1.
MaxPick == 1

----------------------------------------------------------------------------
(* UTF-8, as Go's string <-> []rune conversions and range loops apply it.  *)

RuneError == 65533

IsCont(b) == b >= 128 /\ b <= 191

At(s, p) == IF p >= 1 /\ p <= Len(s) THEN s[p] ELSE 0

\* The rune starting at byte p of s and its width in bytes; an invalid or
\* truncated encoding is RuneError of width 1.
DecodeRuneAt(s, p) ==
    LET b0 == s[p]
        b1 == At(s, p + 1)
        b2 == At(s, p + 2)
        b3 == At(s, p + 3)
        lo3 == IF b0 = 224 THEN 160 ELSE 128
        hi3 == IF b0 = 237 THEN 159 ELSE 191
        lo4 == IF b0 = 240 THEN 144 ELSE 128
        hi4 == IF b0 = 244 THEN 143 ELSE 191
    IN  IF b0 < 128 THEN <<b0, 1>>
        ELSE IF b0 >= 194 /\ b0 <= 223 /\ IsCont(b1)
            THEN <<(b0 - 192) * 64 + (b1 - 128), 2>>
        ELSE IF b0 >= 224 /\ b0 <= 239 /\ b1 >= lo3 /\ b1 <= hi3 /\ IsCont(b2)
            THEN <<(b0 - 224) * 4096 + (b1 - 128) * 64 + (b2 - 128), 3>>
        ELSE IF b0 >= 240 /\ b0 <= 244 /\ b1 >= lo4 /\ b1 <= hi4
                /\ IsCont(b2) /\ IsCont(b3)
            THEN <<(b0 - 240) * 262144 + (b1 - 128) * 4096
                        + (b2 - 128) * 64 + (b3 - 128), 4>>
        ELSE <<RuneError, 1>>

\* utf8.EncodeRune: a surrogate or an out-of-range value encodes as U+FFFD.
EncodeRune(r) ==
    IF r < 0 \/ r > 1114111 \/ (r >= 55296 /\ r <= 57343)
        THEN <<239, 191, 189>>
    ELSE IF r < 128 THEN <<r>>
    ELSE IF r < 2048 THEN <<192 + (r \div 64), 128 + (r % 64)>>
    ELSE IF r < 65536
        THEN <<224 + (r \div 4096), 128 + ((r \div 64) % 64), 128 + (r % 64)>>
    ELSE <<240 + (r \div 262144), 128 + ((r \div 4096) % 64),
           128 + ((r \div 64) % 64), 128 + (r % 64)>>

RECURSIVE RunesFrom(_, _)
RunesFrom(s, p) ==
    IF p > Len(s) THEN <<>>
    ELSE LET d == DecodeRuneAt(s, p) IN <<d[1]>> \o RunesFrom(s, p + d[2])

\* []rune(s)
ToRunesBytewise(s) == s

ToRunes(s) == RunesFrom(s, 1)

\* string(runes)
RECURSIVE FromRunes(_)
FromRunes(rs) ==
    IF rs = <<>> THEN <<>> ELSE EncodeRune(Head(rs)) \o FromRunes(Tail(rs))

\* unicode.IsSpace
IsSpace(r) ==
    \/ r \in {9, 10, 11, 12, 13, 32, 133, 160, 5760}
    \/ r >= 8192 /\ r <= 8202
    \/ r \in {8232, 8233, 8239, 8287, 12288}

\* strings.Fields(s): the maximal runs of non-space runes of s, as substrings.
RECURSIVE FieldsFrom(_, _, _, _)
FieldsFrom(s, p, cur, acc) ==
    LET closed == IF cur = <<>> THEN acc ELSE Append(acc, cur) IN
    IF p > Len(s) THEN closed
    ELSE LET d == DecodeRuneAt(s, p) IN
         IF IsSpace(d[1]) THEN FieldsFrom(s, p + d[2], <<>>, closed)
         ELSE FieldsFrom(s, p + d[2], cur \o SubSeq(s, p, p + d[2] - 1), acc)

Fields(s) == FieldsFrom(s, 1, <<>>, <<>>)

\* strings.Join(elems, sep)
RECURSIVE JoinNoSep(_, _)
JoinNoSep(elems, sep) ==
    IF elems = <<>> THEN <<>> ELSE Head(elems) \o JoinNoSep(Tail(elems), sep)

RECURSIVE Join(_, _)
Join(elems, sep) ==
    IF elems = <<>> THEN <<>>
    ELSE IF Len(elems) = 1 THEN elems[1]
    ELSE Head(elems) \o sep \o Join(Tail(elems), sep)

----------------------------------------------------------------------------
(* The package-level tables.                                               *)

\* The bytes of the string literal of glitchChars, with '<' in place of '&'.
glitchCharsMarkup ==
    <<226, 150, 136, 226, 150, 147, 226, 150, 146, 226, 150, 145,
      35, 42, 63, 33, 64, 37, 60>>

\* The bytes of the string literal "█▓▒░#*?!@%&".
glitchCharsLiteral ==
    <<226, 150, 136, 226, 150, 147, 226, 150, 146, 226, 150, 145,
      35, 42, 63, 33, 64, 37, 38>>

\* "[DATA_EXPUNGED]", "[ERR_CORRUPT]", "[SECTOR_LOST]", "[SIGNAL_DEGRADED]"
glitchWordsLiteral ==
    << <<91, 68, 65, 84, 65, 95, 69, 88, 80, 85, 78, 71, 69, 68, 93>>,
       <<91, 69, 82, 82, 95, 67, 79, 82, 82, 85, 80, 84, 93>>,
       <<91, 83, 69, 67, 84, 79, 82, 95, 76, 79, 83, 84, 93>>,
       <<91, 83, 73, 71, 78, 65, 76, 95, 68, 69, 71, 82, 65, 68, 69, 68, 93>> >>

\* glitchChars = []rune("...") and glitchWords as the package initialises them.
Palette == ToRunes(glitchCharsLiteral)

Vocabulary == glitchWordsLiteral

----------------------------------------------------------------------------
(* The random source.                                                      *)

\* rand.Float64(): the numerators f of the values f / FloatDen.
Float64 == 0 .. (FloatDen - 1)

\* rand.Intn(n): panics for n <= 0 (no value), else an index in 0..n-1.
IntnOffByOne(n) == {k \in 0 .. n : k < MaxPick \/ k = n}

Intn(n) == {k \in 0 .. (n - 1) : k < MaxPick \/ k = n - 1}

\* f / FloatDen < p.num / p.den
Less(f, p) == f * p.den < p.num * FloatDen

----------------------------------------------------------------------------
(* CorruptText, one goroutine's frame at a time.                           *)

Zero == [num |-> 0, den |-> 1]

\* The frame on entry: the parameters, and the locals not yet assigned.
\* drawn, hits and whole are history: the number of calls of the generator,
\* the number of draws that succeeded, and the words replaced whole.
NewFrame(input, severity) ==
    [pc |-> "start", input |-> input, severity |-> severity,
     probCharCorrupt |-> Zero, probWordCorrupt |-> Zero,
     words |-> <<>>, i |-> 0, runes |-> <<>>, j |-> 0, result |-> <<>>,
     drawn |-> 0, hits |-> 0, whole |-> {}]

\* if severity <= 0 { return input }
FastPathNegativeOnly(severity) == severity < 0

FastPath(severity) == severity <= 0

\* if severity > 100 { severity = 100 }
NoClamp(severity) == severity

Clamp(severity) == IF severity > 100 THEN 100 ELSE severity

\* probCharCorrupt := float64(severity) / 100.0
ProbCharAsWord(severity) == [num |-> severity, den |-> 500]

ProbChar(severity) == [num |-> severity, den |-> 100]

\* probWordCorrupt := float64(severity) / 500.0
ProbWordAsChar(severity) == [num |-> severity, den |-> 100]

ProbWord(severity) == [num |-> severity, den |-> 500]

\* char == ' ' || char == '.' || char == ','
SkipsNoComma(char) == char = 32 \/ char = 46

Skips(char) == char = 32 \/ char = 46 \/ char = 44

\* Lines 20-31: the fast path, the clamp, the probabilities, the split.
EnterStep(st) ==
    IF FastPath(st.severity)
    THEN [st EXCEPT !.pc = "done", !.result = st.input]
    ELSE LET sev == Clamp(st.severity) IN
         [st EXCEPT !.pc = "loop", !.severity = sev,
                    !.probCharCorrupt = ProbChar(sev),
                    !.probWordCorrupt = ProbWord(sev),
                    !.words = Fields(st.input), !.i = 1]

\* Line 34: rand.Float64() < probWordCorrupt; line 40 when it fails.
WordDrawStep(st, f) ==
    IF Less(f, st.probWordCorrupt)
    THEN [st EXCEPT !.pc = "pickWord", !.drawn = @ + 1, !.hits = @ + 1]
    ELSE [st EXCEPT !.pc = "char", !.drawn = @ + 1,
                    !.runes = ToRunes(st.words[st.i]), !.j = 1]

\* Lines 35-36: words[i] = glitchWords[rand.Intn(len(glitchWords))]; continue
WordPickStep(st, gw, k) ==
    IF k + 1 > Len(gw)
    THEN [st EXCEPT !.pc = "panic", !.drawn = @ + 1]
    ELSE [st EXCEPT !.pc = "loop", !.drawn = @ + 1,
                    !.words[st.i] = gw[k + 1], !.whole = @ \cup {st.i},
                    !.i = @ + 1]

\* Lines 43-45: continue
CharSkipStep(st) == [st EXCEPT !.j = @ + 1]

\* Line 46: rand.Float64() < probCharCorrupt
CharDrawStep(st, f) ==
    IF Less(f, st.probCharCorrupt)
    THEN [st EXCEPT !.pc = "pickChar", !.drawn = @ + 1, !.hits = @ + 1]
    ELSE [st EXCEPT !.drawn = @ + 1, !.j = @ + 1]

\* Line 47: runes[j] = glitchChars[rand.Intn(len(glitchChars))]
CharPickStep(st, gc, k) ==
    IF k + 1 > Len(gc)
    THEN [st EXCEPT !.pc = "panic", !.drawn = @ + 1]
    ELSE [st EXCEPT !.pc = "char", !.drawn = @ + 1,
                    !.runes[st.j] = gc[k + 1], !.j = @ + 1]

\* Line 50: words[i] = string(runes); runes goes out of scope.
WordEndStep(st) ==
    [st EXCEPT !.pc = "loop", !.words[st.i] = FromRunes(st.runes),
               !.runes = <<>>, !.j = 0, !.i = @ + 1]

\* Line 53: return strings.Join(words, " ")
ReturnInput(st) == [st EXCEPT !.pc = "done", !.result = st.input]

ReturnStep(st) == [st EXCEPT !.pc = "done", !.result = Join(st.words, <<32>>)]

\* Where the frame stands in the loops.
AtWord(st) == st.pc = "loop" /\ st.i <= Len(st.words)
AtReturn(st) == st.pc = "loop" /\ st.i > Len(st.words)
AtChar(st) == st.pc = "char" /\ st.j <= Len(st.runes)
AtWordEnd(st) == st.pc = "char" /\ st.j > Len(st.runes)
AtSkip(st) == AtChar(st) /\ Skips(st.runes[st.j])
AtCharDraw(st) == AtChar(st) /\ ~Skips(st.runes[st.j])

----------------------------------------------------------------------------
(* The goroutines.                                                         *)

Calls == {1, 2}

Running == DOMAIN frame

Enter(c) ==
    /\ c \in Running
    /\ frame[c].pc = "start"
    /\ frame' = [frame EXCEPT ![c] = EnterStep(@)]
    /\ UNCHANGED <<call, glitchChars, glitchWords>>

WordDraw(c) ==
    /\ c \in Running
    /\ AtWord(frame[c])
    /\ \E f \in Float64 : frame' = [frame EXCEPT ![c] = WordDrawStep(@, f)]
    /\ UNCHANGED <<call, glitchChars, glitchWords>>

WordPick(c) ==
    /\ c \in Running
    /\ frame[c].pc = "pickWord"
    /\ \E k \in Intn(Len(glitchWords)) :
           frame' = [frame EXCEPT ![c] = WordPickStep(@, glitchWords, k)]
    /\ UNCHANGED <<call, glitchChars, glitchWords>>

CharSkip(c) ==
    /\ c \in Running
    /\ AtSkip(frame[c])
    /\ frame' = [frame EXCEPT ![c] = CharSkipStep(@)]
    /\ UNCHANGED <<call, glitchChars, glitchWords>>

CharDraw(c) ==
    /\ c \in Running
    /\ AtCharDraw(frame[c])
    /\ \E f \in Float64 : frame' = [frame EXCEPT ![c] = CharDrawStep(@, f)]
    /\ UNCHANGED <<call, glitchChars, glitchWords>>

\* The same step with runes a buffer shared by all goroutines.
CharPickSharedBuffer(c) ==
    /\ c \in Running
    /\ frame[c].pc = "pickChar"
    /\ \E k \in Intn(Len(glitchChars)) :
           frame' = [d \in Running |->
                        IF d = c THEN CharPickStep(frame[d], glitchChars, k)
                        ELSE IF frame[c].j <= Len(frame[d].runes)
                            THEN [frame[d] EXCEPT
                                     !.runes[frame[c].j] = glitchChars[k + 1]]
                        ELSE frame[d]]
    /\ UNCHANGED <<call, glitchChars, glitchWords>>

CharPick(c) ==
    /\ c \in Running
    /\ frame[c].pc = "pickChar"
    /\ \E k \in Intn(Len(glitchChars)) :
           frame' = [frame EXCEPT ![c] = CharPickStep(@, glitchChars, k)]
    /\ UNCHANGED <<call, glitchChars, glitchWords>>

WordEnd(c) ==
    /\ c \in Running
    /\ AtWordEnd(frame[c])
    /\ frame' = [frame EXCEPT ![c] = WordEndStep(@)]
    /\ UNCHANGED <<call, glitchChars, glitchWords>>

Return(c) ==
    /\ c \in Running
    /\ AtReturn(frame[c])
    /\ frame' = [frame EXCEPT ![c] = ReturnStep(@)]
    /\ UNCHANGED <<call, glitchChars, glitchWords>>

----------------------------------------------------------------------------
(* Inputs.                                                                 *)

\* 'a', '.', ',', ' ', '\n', and the two bytes of U+00E9, each of which is
\* an invalid encoding on its own.
Bytes == {97, 46, 44, 32, 10, 195, 169}

Severities == {-1, 0, 50, 100, 101}

Strings(alphabet, n) == UNION {[1 .. m -> alphabet] : m \in 0 .. n}

Inputs == Strings(Bytes, MaxLen)

Tables ==
    /\ glitchChars = Palette
    /\ glitchWords = Vocabulary

\* One call of CorruptText.
Init ==
    /\ Tables
    /\ call \in [{1} -> [input : Inputs, severity : Severities]]
    /\ frame = [c \in {1} |-> NewFrame(call[c].input, call[c].severity)]

Next ==
    \/ \E c \in Calls : Enter(c)
    \/ \E c \in Calls : WordDraw(c)
    \/ \E c \in Calls : WordPick(c)
    \/ \E c \in Calls : CharSkip(c)
    \/ \E c \in Calls : CharDraw(c)
    \/ \E c \in Calls : CharPick(c)
    \/ \E c \in Calls : WordEnd(c)
    \/ \E c \in Calls : Return(c)

Spec == Init /\ [][Next]_vars

----------------------------------------------------------------------------
(* Auxiliary notions the properties are stated in.                         *)

Done(c) == frame[c].pc = "done"

Range(f) == {f[x] : x \in DOMAIN f}

\* utf8.ValidString
RECURSIVE ValidFrom(_, _)
ValidFrom(s, p) ==
    IF p > Len(s) THEN TRUE
    ELSE LET d == DecodeRuneAt(s, p) IN
         /\ ~(d[1] = 65533 /\ d[2] = 1)
         /\ ValidFrom(s, p + d[2])

ValidUTF8(s) == ValidFrom(s, 1)

\* utf8.RuneCountInString
RECURSIVE CountFrom(_, _)
CountFrom(s, p) ==
    IF p > Len(s) THEN 0 ELSE 1 + CountFrom(s, p + DecodeRuneAt(s, p)[2])

RuneCount(s) == CountFrom(s, 1)

\* The code points of s, in order and as a set.
RECURSIVE PointsFrom(_, _)
PointsFrom(s, p) ==
    IF p > Len(s) THEN <<>>
    ELSE LET d == DecodeRuneAt(s, p) IN <<d[1]>> \o PointsFrom(s, p + d[2])

Points(s) == PointsFrom(s, 1)

PointSet(s) == Range(Points(s))

\* The whitespace-delimited tokens of the argument and of the result.
InWords(c) == Fields(call[c].input)
OutWords(c) == Fields(frame[c].result)

\* Space, period and comma.
Kept == {32, 46, 44}

\* The number of code points of s outside Kept.
Corruptible(s) ==
    LET ps == Points(s) IN Cardinality({k \in DOMAIN ps : ps[k] \notin Kept})

RECURSIVE SumOver(_, _)
SumOver(f, S) ==
    IF S = {} THEN 0
    ELSE LET x == CHOOSE y \in S : TRUE IN f[x] + SumOver(f, S \ {x})

\* The words of call c that were not replaced whole.
CharWise(c) == (1 .. Len(InWords(c))) \ frame[c].whole

----------------------------------------------------------------------------
(* Properties of one call (Spec).                                          *)

\* C1: a call with severity <= 0 returns its input byte for byte, inter-word
\* whitespace included, and makes no call of the random generator.
C1_Identity ==
    \A c \in Running :
        Done(c) /\ call[c].severity <= 0 =>
            /\ frame[c].result = call[c].input
            /\ frame[c].drawn = 0

\* A call with severity <= 0 has returned an input that splitting and
\* rejoining would have changed.
C1_Witness ==
    \E c \in Running :
        /\ Done(c) /\ call[c].severity <= 0
        /\ Len(InWords(c)) >= 1
        /\ Join(InWords(c), <<32>>) # call[c].input

\* C3: for severity > 0 the result has as many whitespace-delimited tokens
\* as the input, whatever the draws.
C3_TokenCount ==
    \A c \in Running :
        Done(c) /\ call[c].severity > 0 =>
            Len(OutWords(c)) = Len(InWords(c))

\* A call has returned two tokens, the first a glitch word and the second
\* with a substituted glyph.
C3_Witness ==
    \E c \in Running :
        /\ Done(c) /\ call[c].severity > 0
        /\ Len(InWords(c)) = 2
        /\ frame[c].whole = {1}
        /\ frame[c].hits = 2

\* C5: in a word not replaced whole, every space, period and comma of the
\* input word stands unchanged at the same code-point position of the output
\* word, at every severity; and no draw is made for such a character: the
\* generator is called once per word, once per other code point of a word
\* not replaced whole, and once more per draw that succeeded.
C5_PunctuationKept ==
    \A c \in Running :
        Done(c) /\ call[c].severity > 0 =>
            LET in == InWords(c)
                out == OutWords(c)
                charwise == DOMAIN in \ frame[c].whole
            IN  /\ Len(out) = Len(in)
                /\ \A i \in charwise :
                       LET iw == Points(in[i])
                           ow == Points(out[i])
                       IN  /\ Len(ow) = Len(iw)
                           /\ \A k \in DOMAIN iw :
                                  iw[k] \in Kept => ow[k] = iw[k]
                /\ frame[c].drawn =
                       Len(in) + frame[c].hits
                       + SumOver([i \in charwise |-> Corruptible(in[i])],
                                 charwise)

\* A call at severity 100 has returned a word, not replaced whole, that holds
\* a comma and a period besides a substituted glyph.
C5_Witness ==
    \E c \in Running :
        /\ Done(c) /\ call[c].severity = 100
        /\ Len(InWords(c)) = 1 /\ frame[c].whole = {}
        /\ {44, 46} \subseteq PointSet(InWords(c)[1])
        /\ frame[c].hits = 1

\* C6: at severity 100, or above and clamped, every code point other than
\* space, period and comma of a word not replaced whole is replaced by a
\* member of the glyph palette, whatever rand.Float64() yields.
C6_FullReplacement ==
    \A c \in Running :
        Done(c) /\ call[c].severity >= 100 =>
            LET in == InWords(c)
                out == OutWords(c)
                palette == Range(glitchChars)
            IN  /\ Len(out) = Len(in)
                /\ \A i \in DOMAIN in \ frame[c].whole :
                       LET iw == Points(in[i])
                           ow == Points(out[i])
                       IN  /\ Len(ow) = Len(iw)
                           /\ \A k \in DOMAIN iw :
                                  iw[k] \notin Kept => ow[k] \in palette

\* A call at severity >= 100 has returned a word, not replaced whole, of two
\* corruptible code points and a period.
C6_Witness ==
    \E c \in Running :
        /\ Done(c) /\ call[c].severity >= 100
        /\ \E i \in CharWise(c) :
               /\ Corruptible(InWords(c)[i]) = 2
               /\ 46 \in PointSet(InWords(c)[i])

\* C7 as claimed: for severity > 0, when every draw fails, the result is the
\* whitespace-delimited tokens of the input joined by single spaces.
C7_AllDrawsFail_AsClaimed ==
    \A c \in Running :
        Done(c) /\ call[c].severity > 0 /\ frame[c].hits = 0 =>
            frame[c].result = Join(InWords(c), <<32>>)

\* C7, amended: for severity > 0, when every draw fails, the result is the
\* whitespace-delimited tokens of the input, each invalid UTF-8 byte of a
\* token replaced by U+FFFD, joined by single spaces; for an input that is
\* valid UTF-8 it is exactly the tokens joined by single spaces, and the
\* empty string for an empty or whitespace-only input.
C7_AllDrawsFail ==
    \A c \in Running :
        Done(c) /\ call[c].severity > 0 /\ frame[c].hits = 0 =>
            LET in == InWords(c)
                out == OutWords(c)
            IN  /\ Len(out) = Len(in)
                /\ \A i \in DOMAIN in : Points(out[i]) = Points(in[i])
                /\ ValidUTF8(frame[c].result)
                /\ frame[c].result = Join(out, <<32>>)
                /\ ValidUTF8(call[c].input) =>
                       frame[c].result = Join(in, <<32>>)
                /\ in = <<>> => frame[c].result = <<>>

\* A call with severity > 0 whose draws all failed has returned two tokens
\* of a valid input that were separated by a newline.
C7_Witness ==
    \E c \in Running :
        /\ Done(c) /\ call[c].severity > 0 /\ frame[c].hits = 0
        /\ ValidUTF8(call[c].input)
        /\ Len(InWords(c)) = 2
        /\ 10 \in Range(call[c].input)
        /\ frame[c].result # call[c].input

\* The characters HTML escaping acts on: less-than, greater-than, ampersand,
\* double quote, apostrophe.
HtmlSignificant == {60, 62, 38, 34, 39}

\* The code points a substitution can add: those of the palette and of the
\* vocabulary.
Added ==
    Range(Palette) \cup UNION {PointSet(Vocabulary[k]) : k \in DOMAIN Vocabulary}

\* C8 as claimed: every code point of the result that is not in the input
\* comes from a substitution, and no substituted glyph or glitch word holds
\* a character significant to HTML escaping.
C8_NoMarkup_AsClaimed ==
    \A c \in Running :
        Done(c) =>
            \A r \in PointSet(frame[c].result) :
                r \in HtmlSignificant => r \in PointSet(call[c].input)

\* C8, amended: every code point of the result is a code point of the input
\* (U+FFFD for an invalid byte), the single space that joins the words, a
\* glyph of the palette or a character of a glitch word; no glyph and no
\* glitch word holds a less-than sign, a greater-than sign, a double quote
\* or an apostrophe; the palette does hold the ampersand, so the result may
\* hold an ampersand the input did not.
C8_NoMarkup ==
    /\ glitchChars = Palette
    /\ glitchWords = Vocabulary
    /\ Added \cap HtmlSignificant = {38}
    /\ \A c \in Running :
           Done(c) =>
               PointSet(frame[c].result) \subseteq
                   PointSet(call[c].input) \cup {32} \cup Added

\* A call has returned an ampersand that its input did not hold.
C8_Witness ==
    \E c \in Running :
        /\ Done(c)
        /\ 38 \in PointSet(frame[c].result)
        /\ 38 \notin PointSet(call[c].input)

\* C9: for an input that is valid UTF-8 the result is valid UTF-8, and a
\* word not replaced whole has as many code points in the result as in the
\* input.
C9_WholeCodePoints ==
    \A c \in Running :
        Done(c) /\ call[c].severity > 0 /\ ValidUTF8(call[c].input) =>
            LET in == InWords(c)
                out == OutWords(c)
            IN  /\ ValidUTF8(frame[c].result)
                /\ Len(out) = Len(in)
                /\ \A i \in DOMAIN in \ frame[c].whole :
                       RuneCount(out[i]) = RuneCount(in[i])

\* A call has returned a valid input's two-byte character replaced by a
\* glyph, in a word with a second character.
C9_Witness ==
    \E c \in Running :
        /\ Done(c) /\ call[c].severity > 0 /\ ValidUTF8(call[c].input)
        /\ frame[c].whole = {} /\ frame[c].hits = 1
        /\ Len(InWords(c)) = 1
        /\ RuneCount(InWords(c)[1]) = 2
        /\ 233 \in PointSet(call[c].input)
        /\ 233 \notin PointSet(frame[c].result)

----------------------------------------------------------------------------
(* The call as a function of its draws.                                    *)

\* The step the frame st takes next, given the values the generator would
\* yield for rand.Float64() and for rand.Intn over either table.
Advance(st, f, kw, kc, gc, gw) ==
    IF st.pc = "start" THEN EnterStep(st)
    ELSE IF AtWord(st) THEN WordDrawStep(st, f)
    ELSE IF st.pc = "pickWord" THEN WordPickStep(st, gw, kw)
    ELSE IF AtSkip(st) THEN CharSkipStep(st)
    ELSE IF AtCharDraw(st) THEN CharDrawStep(st, f)
    ELSE IF st.pc = "pickChar" THEN CharPickStep(st, gc, kc)
    ELSE IF AtWordEnd(st) THEN WordEndStep(st)
    ELSE IF AtReturn(st) THEN ReturnStep(st)
    ELSE st

Returned(st) == st.pc \in {"done", "panic"}

----------------------------------------------------------------------------
(* Termination (SpecFair): a goroutine that can take a step takes it.      *)

SpecFair == Spec /\ WF_vars(Next)

\* C4: for every input (empty, whitespace only, only spaces, periods and
\* commas, multi-byte, invalid) and every severity (negative, zero, 100,
\* above 100) the call never panics -- no index into glitchChars or
\* glitchWords is out of range -- and it returns.
C4_Total ==
    /\ [](\A c \in Running : frame[c].pc # "panic")
    /\ <>(\A c \in Running : Done(c))

\* A call on an input of two words has indexed both tables and returned.
C4_Witness ==
    \E c \in Running :
        /\ Done(c)
        /\ frame[c].whole = {1}
        /\ frame[c].hits = 2
        /\ Len(frame[c].words) = 2

----------------------------------------------------------------------------
(* The clamp (SpecClamp): two runs of the same call, one with a severity   *)
(* above 100 and one with severity 100, given the same draws.              *)

Above == {101, 500}

InitClamp ==
    /\ Tables
    /\ \E in \in Inputs, s \in Above :
           call = <<[input |-> in, severity |-> s],
                    [input |-> in, severity |-> 100]>>
    /\ frame = [c \in Calls |-> NewFrame(call[c].input, call[c].severity)]

\* The values <<f, kw, kc>> the generator may yield next for rand.Float64()
\* and for rand.Intn over glitchWords and over glitchChars, a value that
\* the step of st does not read being fixed at 0.
Draws(st) ==
    {d \in Float64 \X Intn(Len(glitchWords)) \X Intn(Len(glitchChars)) :
         /\ ~(AtWord(st) \/ AtCharDraw(st)) => d[1] = 0
         /\ st.pc # "pickWord" => d[2] = 0
         /\ st.pc # "pickChar" => d[3] = 0}

\* Both runs take their next step with the same values from the generator.
Lockstep ==
    /\ \E c \in Running : ~Returned(frame[c])
    /\ \E d \in Draws(frame[1]) \cup Draws(frame[2]) :
           frame' = [c \in Running |->
                        Advance(frame[c], d[1], d[2], d[3],
                                glitchChars, glitchWords)]
    /\ UNCHANGED <<call, glitchChars, glitchWords>>

SpecClamp == InitClamp /\ [][Lockstep]_vars

\* C2: a call with severity above 100 behaves as the call with severity 100:
\* given the same draws, from the clamp on the two runs are in the same
\* state at every step, so they consume the same draws and return the same
\* string.
C2_Clamp ==
    frame[1].pc # "start" =>
        /\ frame[1] = frame[2]
        /\ Done(1) => /\ frame[1].result = frame[2].result
                      /\ frame[1].drawn = frame[2].drawn

\* Both runs have returned, with a word replaced whole and a glyph
\* substituted in another.
C2_Witness ==
    /\ Done(1) /\ Done(2)
    /\ call[1].severity = 500
    /\ frame[1].whole # {}
    /\ frame[1].hits >= 2
    /\ Len(InWords(1)) = 2

----------------------------------------------------------------------------
(* Concurrent calls (SpecConc): two request handlers call CorruptText and  *)
(* their steps interleave; each draw is one atomic step.                   *)

ConcBytes == {97, 46}

ConcSeverities == {0, 50}

ConcInputs == Strings(ConcBytes, ConcLen)

InitConc ==
    /\ Tables
    /\ call \in [Calls -> [input : ConcInputs, severity : ConcSeverities]]
    /\ frame = [c \in Calls |-> NewFrame(call[c].input, call[c].severity)]

SpecConc == InitConc /\ [][Next]_vars

\* The frames a call at st may be in after its next step when it runs alone.
Successors(st) ==
    {Advance(st, f, kw, kc, Palette, Vocabulary) :
         f \in Float64, kw \in Intn(Len(Vocabulary)), kc \in Intn(Len(Palette))}

\* The frames a call reaches from st when it runs alone, over every
\* sequence of draws.
RECURSIVE Alone(_)
Alone(st) ==
    IF Returned(st) THEN {st}
    ELSE {st} \cup UNION {Alone(n) : n \in Successors(st)}

\* Every <<input, severity, frame>> with the frame one that the call reaches
\* alone.
AloneFrames ==
    UNION {{<<in, s, st>> : st \in Alone(NewFrame(in, s))} :
               in \in ConcInputs, s \in ConcSeverities}

\* C10: under every interleaving of two concurrent calls, each call is at
\* every step in a state, and returns a result, that the same call reaches
\* when it runs alone with some sequence of draws; no call panics; and the
\* palette and the vocabulary are never written.
C10_ConcurrentCalls ==
    /\ glitchChars = Palette
    /\ glitchWords = Vocabulary
    /\ \A c \in Running :
           /\ <<call[c].input, call[c].severity, frame[c]>> \in AloneFrames
           /\ frame[c].pc # "panic"

\* Both calls are in progress at once, each between a successful
\* rand.Float64() draw for a character and its rand.Intn() pick, on
\* different inputs.
C10_Witness ==
    /\ frame[1].pc = "pickChar" /\ frame[2].pc = "pickChar"
    /\ frame[1].drawn >= 2 /\ frame[2].drawn >= 2
    /\ 46 \in Range(call[2].input)
    /\ call[1].input # call[2].input

----------------------------------------------------------------------------
(* The order of the draws (SpecOrder): one call, whose frame also records  *)
(* in the field last the value the generator yielded in the latest step.   *)

NoDraw == [fn |-> "none", v |-> 0]

\* What the step of st reads of the draw d = <<f, kw, kc>>.
Read(st, d) ==
    IF AtWord(st) \/ AtCharDraw(st) THEN [fn |-> "Float64", v |-> d[1]]
    ELSE IF st.pc = "pickWord" THEN [fn |-> "Intn", v |-> d[2]]
    ELSE IF st.pc = "pickChar" THEN [fn |-> "Intn", v |-> d[3]]
    ELSE NoDraw

InitOrder ==
    /\ Tables
    /\ call \in [{1} -> [input : Inputs, severity : Severities]]
    /\ frame = [c \in {1} |->
                   [last |-> NoDraw]
                       @@ NewFrame(call[c].input, call[c].severity)]

\* The next step of call c, with the value it draws recorded.
Observe(c) ==
    \E d \in Draws(frame[c]) :
        /\ frame' = [frame EXCEPT ![c] =
                        [Advance(@, d[1], d[2], d[3], glitchChars, glitchWords)
                             EXCEPT !.last = Read(frame[c], d)]]
        /\ UNCHANGED <<call, glitchChars, glitchWords>>

\* Lines 34 and 46: a step that calls rand.Float64().
ObserveFloat64(c) ==
    /\ c \in Running
    /\ AtWord(frame[c]) \/ AtCharDraw(frame[c])
    /\ Observe(c)

\* Lines 35 and 47: a step that calls rand.Intn().
ObserveIntn(c) ==
    /\ c \in Running
    /\ frame[c].pc \in {"pickWord", "pickChar"}
    /\ Observe(c)

\* A step that does not call the generator.
ObserveOther(c) ==
    /\ c \in Running
    /\ ~Returned(frame[c])
    /\ ~(AtWord(frame[c]) \/ AtCharDraw(frame[c]))
    /\ frame[c].pc \notin {"pickWord", "pickChar"}
    /\ Observe(c)

NextOrder ==
    \/ \E c \in Calls : ObserveFloat64(c)
    \/ \E c \in Calls : ObserveIntn(c)
    \/ \E c \in Calls : ObserveOther(c)

SpecOrder == InitOrder /\ [][NextOrder]_vars

\* The severity of call c after the clamp.
Clamped(c) == IF call[c].severity > 100 THEN 100 ELSE call[c].severity

\* C11: the words are taken in input order; at each word the call first
\* makes one rand.Float64() draw, which succeeds exactly when it is below
\* severity/500 (so only when it is below 0.20); on success the next step
\* replaces the whole word by a member of the vocabulary and goes on to the
\* next word, with no character-level draw for that word; only on failure
\* does the call enter the word's code points, each of which outside space,
\* period and comma is drawn against severity/100.
C11_WordDrawFirst ==
    [][\A c \in Running :
           LET st == frame[c]
               nx == frame'[c]
           IN  /\ AtWord(st) =>
                      /\ st.words[st.i] = InWords(c)[st.i]
                      /\ st.i \notin st.whole
                      /\ nx.last.fn = "Float64"
                      /\ nx.drawn = st.drawn + 1
                      /\ nx.i = st.i
                      /\ (nx.pc = "pickWord") <=>
                             (nx.last.v * 500 < Clamped(c) * FloatDen)
                      /\ nx.pc = "pickWord" => nx.last.v * 5 < FloatDen
                      /\ nx.pc # "pickWord" =>
                             /\ nx.pc = "char" /\ nx.j = 1
                             /\ nx.runes = Points(InWords(c)[st.i])
               /\ st.pc = "pickWord" =>
                      /\ nx.last.fn = "Intn"
                      /\ nx.drawn = st.drawn + 1
                      /\ nx.pc = "loop" /\ nx.i = st.i + 1
                      /\ nx.words[st.i] \in Range(Vocabulary)
                      /\ nx.whole = st.whole \cup {st.i}
                      /\ nx.runes = <<>>
               /\ st.pc \in {"char", "pickChar"} =>
                      /\ st.i \notin st.whole
                      /\ nx.pc = "loop" => nx.i = st.i + 1
                      /\ nx.pc # "loop" => nx.i = st.i
               /\ AtCharDraw(st) =>
                      /\ nx.last.fn = "Float64"
                      /\ nx.drawn = st.drawn + 1
                      /\ (nx.pc = "pickChar") <=>
                             (nx.last.v * 100 < Clamped(c) * FloatDen)
               /\ st.pc = "start" /\ nx.pc = "loop" => nx.i = 1
      ]_vars

\* A call of two words has drawn for the characters of the first, after its
\* word draw failed, and has replaced the second whole.
C11_Witness ==
    \E c \in Running :
        /\ "last" \in DOMAIN frame[c]
        /\ frame[c].pc = "loop" /\ frame[c].i = 3
        /\ frame[c].whole = {2}
        /\ frame[c].hits = 2
        /\ frame[c].last.fn = "Intn"

====
